---------------------------- MODULE Spec2Model ----------------------------
(***************************************************************************)
(* A model of graph-maker (src/src/App.tsx): the record codec (parseCSV,   *)
(* serializeToCSV), the layout engine and route planner                    *)
(* (calculateTreeLayout, calculateMergedPath), the snap handler            *)
(* (handleNodesChange) and the shell handlers that drive them.             *)
(*                                                                         *)
(* Text is a sequence of tokens (strings): the separators "," ";" "-" "."  *)
(* " " and "\n" are tokens of their own, a run of digits or of letters is  *)
(* one token.  Numbers are fixed-point: an integer n stands for n / Scale. *)
(* A JavaScript number that may be NaN is <<n>> or <<>> (NaN).             *)
(***************************************************************************)
EXTENDS Integers, Sequences, FiniteSets, TLC

VARIABLES
    file,                  \* the text of the file the user picks
    other,                 \* the text of a second file the user can pick with Load
    phase,                 \* where the running handler is; "idle" / "view" between handlers
    content,               \* the text handed to parseCSV by the running load
    treeNodes,             \* parsed.nodes
    prevNodes,             \* parsed.nodes of the load before this one
    hasExplicitPositions,  \* calculateTreeLayout's mode
    nodeDepths,            \* the Map nodeDepths: [order: keys in insertion order, depth: key -> depth]
    calls,                 \* the assignDepth invocations still to run, next one first
    expanded,              \* the ids whose children loop has run, in order
    flowNodes,             \* calculateTreeLayout's nodes
    flowEdges,             \* calculateTreeLayout's edges
    routingData,           \* [horizontalChannels, verticalTrunks, nodeColors]
    graphData,             \* App's graphData: <<>> (null) or <<[nodes, edges, routing]>>
    nodes,                 \* GraphView's nodes (useNodesState); <<>> while unmounted
    lastChange,            \* the last position change handled: <<>> or <<[id, position, before, committed]>>
    lastPath,              \* the last edge path computed: <<>> or <<[edge, args, path]>>
    saved,                 \* the last text written by Save: <<>> or <<text>>
    loadedFrom,            \* what the running / last load read: "file", "paste", "saved" or "other"
    moves                  \* the position changes handled so far

vars == << file, other, phase, content, treeNodes, prevNodes, hasExplicitPositions,
           nodeDepths, calls, expanded, flowNodes, flowEdges, routingData,
           graphData, nodes, lastChange, lastPath, saved, loadedFrom, moves >>

---------------------------------------------------------------------------
(* Numbers *)

\* One unit is Scale fixed-point steps: positions are multiples of 1/4.
Scale == 4

U(n) == n * Scale

Num(v) == <<v>>
NaN == <<>>
isNaN(n) == n = NaN

Abs(v) == IF v < 0 THEN -v ELSE v

\* Math.round: the nearest integer, halves towards +Infinity; the result in units.
MathRound(v) == (v + Scale \div 2) \div Scale

Min(S) == CHOOSE m \in S : \A o \in S : m <= o
Max(S) == CHOOSE m \in S : \A o \in S : m >= o

\* The largest integer literal the texts of the model hold.
MaxNum == 999

NumToks == { ToString(n) : n \in 0..MaxNum }
NumVal == [ t \in NumToks |-> CHOOSE n \in 0..MaxNum : ToString(n) = t ]

\* Infinity: above every number the texts of the model hold.  No arithmetic
\* is done on it: it is only parsed, stored and tested.
Infinity == U(MaxNum + 1)
isFinite(n) == ~isNaN(n) /\ Abs(n[1]) < Infinity

\* `${n}` for an integer n (in units): the sign is a token of its own.
IntToks(n) == IF n < 0 THEN << "-", ToString(-n) >> ELSE << ToString(n) >>

---------------------------------------------------------------------------
(* Strings *)

WhiteSpace == { " ", "\n", "\r" }

trimStart(s) ==
    LET kept == { i \in 1..Len(s) : s[i] \notin WhiteSpace }
    IN  IF kept = {} THEN <<>> ELSE SubSeq(s, Min(kept), Len(s))

trimEnd(s) ==
    LET kept == { i \in 1..Len(s) : s[i] \notin WhiteSpace }
    IN  IF kept = {} THEN <<>> ELSE SubSeq(s, 1, Max(kept))

trim(s) == trimEnd(trimStart(s))

\* String.prototype.split(sep): always at least one piece, pieces may be
\* empty; the k-th piece lies between the (k-1)-th and the k-th separator.
split(s, sep) ==
    LET at     == { i \in 1..Len(s) : s[i] = sep }
        nth(k) == IF k = 0 THEN 0
                  ELSE IF k > Cardinality(at) THEN Len(s) + 1
                  ELSE CHOOSE i \in at : Cardinality({ j \in at : j < i }) = k - 1
    IN  [ k \in 1..(Cardinality(at) + 1) |-> SubSeq(s, nth(k - 1) + 1, nth(k) - 1) ]

\* Array.prototype.join(sep)
RECURSIVE join(_, _)
join(ss, sep) ==
    IF ss = <<>> THEN <<>>
    ELSE IF Len(ss) = 1 THEN ss[1]
    ELSE ss[1] \o << sep >> \o join(Tail(ss), sep)

\* parseFloat: leading white space skipped, an optional sign, then
\* "Infinity" or digits and an optional ".5"; what follows is ignored; NaN
\* without either.  undefined (no such piece) is passed as <<>>, which is
\* NaN as well.
parseFloat(s) ==
    LET t   == trimStart(s)
        neg == t # <<>> /\ Head(t) = "-"
        u   == IF neg THEN Tail(t) ELSE t
    IN  IF u # <<>> /\ Head(u) = "Infinity"
        THEN Num(IF neg THEN -Infinity ELSE Infinity)
        ELSE IF u = <<>> \/ Head(u) \notin NumToks THEN NaN
        ELSE LET int  == NumVal[Head(u)]
                 frac == IF Len(u) >= 3 /\ u[2] = "." /\ u[3] = "5"
                         THEN Scale \div 2 ELSE 0
                 mag  == U(int) + frac
             IN  Num(IF neg THEN -mag ELSE mag)

\* parseInt(s, 10): an optional sign and digits; NaN without digits.
parseInt(s) ==
    LET t   == trimStart(s)
        neg == t # <<>> /\ Head(t) = "-"
        u   == IF neg THEN Tail(t) ELSE t
    IN  IF u = <<>> \/ Head(u) \notin NumToks THEN NaN
        ELSE Num(IF neg THEN -U(NumVal[Head(u)]) ELSE U(NumVal[Head(u)]))

---------------------------------------------------------------------------
(* Record codec *)

NoPosition == <<>>

\* filter(Boolean) on an array of strings
RECURSIVE filterBoolean(_)
filterBoolean(ss) ==
    IF ss = <<>> THEN <<>>
    ELSE IF Head(ss) = <<>> THEN filterBoolean(Tail(ss))
    ELSE << Head(ss) >> \o filterBoolean(Tail(ss))

parseChildren(parts) ==
    LET childrenStr == IF Len(parts) >= 3 THEN trim(parts[3]) ELSE <<>>
        pieces      == split(childrenStr, ";")
    IN  IF childrenStr = <<>> THEN <<>>
        ELSE filterBoolean([ i \in 1..Len(pieces) |-> trim(pieces[i]) ])

parsePosition(parts) ==
    LET positionStr == IF Len(parts) >= 4 THEN trim(parts[4]) ELSE <<>>
        pieces      == split(positionStr, ";")
        x           == parseFloat(pieces[1])
        y           == parseFloat(IF Len(pieces) >= 2 THEN pieces[2] ELSE <<>>)
    IN  IF positionStr = <<>> THEN NoPosition
        ELSE IF ~isNaN(x) /\ ~isNaN(y) THEN << x[1], y[1] >>
        ELSE NoPosition

\* One pass of parseCSV's loop: the nodes a line adds (none or one).
parseLine(line) ==
    LET parts == split(line, ",")
    IN  IF Len(parts) < 2 THEN <<>>
        ELSE << [ id       |-> trim(parts[1]),
                  label    |-> trim(parts[2]),
                  children |-> parseChildren(parts),
                  position |-> parsePosition(parts) ] >>

RECURSIVE parseLines(_)
parseLines(lines) ==
    IF lines = <<>> THEN <<>>
    ELSE parseLine(Head(lines)) \o parseLines(Tail(lines))

parseCSV(text) == parseLines(split(trim(text), "\n"))

\* The children serializeToCSV gives a node id: the targets of its edges, in order.
RECURSIVE childrenMap(_, _)
childrenMap(edges, id) ==
    IF edges = <<>> THEN <<>>
    ELSE (IF Head(edges).source = id THEN << Head(edges).target >> ELSE <<>>)
         \o childrenMap(Tail(edges), id)

\* serializeLine with the fraction of a position cut off instead of rounded.
serializeLineTruncating(node, edges) ==
    node.id \o << "," >> \o node.label \o << "," >>
    \o join(childrenMap(edges, node.id), ";") \o << "," >>
    \o IntToks(node.position[1] \div Scale) \o << ";" >>
    \o IntToks(node.position[2] \div Scale)

serializeLine(node, edges) ==
    node.id \o << "," >> \o node.label \o << "," >>
    \o join(childrenMap(edges, node.id), ";") \o << "," >>
    \o IntToks(MathRound(node.position[1])) \o << ";" >>
    \o IntToks(MathRound(node.position[2]))

serializeToCSV(ns, edges) ==
    join([ i \in 1..Len(ns) |-> serializeLine(ns[i], edges) ], "\n")

---------------------------------------------------------------------------
(* Layout engine: calculateTreeLayout *)

NODE_WIDTH == 150
NODE_HEIGHT == 40
HORIZONTAL_SPACING == 200
VERTICAL_SPACING == 120

\* COLORS.length; a color is its index in COLORS.
NumColors == 12

\* Indices of the records that carry an id.
indicesOf(tn, id) == { i \in 1..Len(tn) : tn[i].id = id }

\* new Map(treeNodes.map(n => [n.id, n])): a later record replaces an earlier one.
nodeMapHas(tn, id) == indicesOf(tn, id) # {}

\* The lookup in a map that keeps the first record of an id.
nodeMapGetFirst(tn, id) == tn[Min(indicesOf(tn, id))]

nodeMapGet(tn, id) == tn[Max(indicesOf(tn, id))]

\* The Map nodeColors after the forEach: a later index replaces an earlier
\* one of the same id.  A color is its index in COLORS.
nodeColors(tn) ==
    [ id \in { tn[i].id : i \in 1..Len(tn) } |->
        (Max(indicesOf(tn, id)) - 1) % NumColors ]

\* nodeColors.get(id) ?? COLORS[0]
nodeColor(tn, id) ==
    IF indicesOf(tn, id) = {} THEN 0
    ELSE (Max(indicesOf(tn, id)) - 1) % NumColors

\* The mode check with some in place of every.
someHasPosition(tn) == \E i \in 1..Len(tn) : tn[i].position # NoPosition

everyHasPosition(tn) == \A i \in 1..Len(tn) : tn[i].position # NoPosition

flowNode(tn, node, id, position) ==
    [ id       |-> id,
      position |-> position,
      label    |-> node.label,
      children |-> node.children,
      color    |-> nodeColor(tn, id) ]

explicitNodes(tn) ==
    [ i \in 1..Len(tn) |-> flowNode(tn, tn[i], tn[i].id, tn[i].position) ]

allChildIds(tn) ==
    UNION { { tn[i].children[k] : k \in 1..Len(tn[i].children) } : i \in 1..Len(tn) }

RECURSIVE rootIds(_, _)
rootIds(tn, rest) ==
    IF rest = <<>> THEN <<>>
    ELSE (IF Head(rest).id \in allChildIds(tn) THEN <<>> ELSE << Head(rest).id >>)
         \o rootIds(tn, Tail(rest))

call(id, depth) == [ id |-> id, depth |-> depth ]

has(nd, id) == id \in DOMAIN nd.depth

\* The Map after set(id, depth): a new key goes last, an old key keeps its place.
mapSet(nd, id, depth) ==
    [ order |-> IF has(nd, id) THEN nd.order ELSE Append(nd.order, id),
      depth |-> [ k \in DOMAIN nd.depth \cup { id } |->
                    IF k = id THEN depth ELSE nd.depth[k] ] ]

\* The keys of a level in the reverse of Map order.
nodesAtLevelReversed(nd, depth) ==
    LET AtDepth(id) == nd.depth[id] = depth
        level == SelectSeq(nd.order, AtDepth)
    IN  [ k \in 1..Len(level) |-> level[Len(level) + 1 - k] ]

\* nodeLevels.get(depth): the keys of nodeDepths with that depth, in Map order.
nodesAtLevel(nd, depth) ==
    LET AtDepth(id) == nd.depth[id] = depth
    IN  SelectSeq(nd.order, AtDepth)

maxDepth(nd) == Max({ nd.depth[id] : id \in DOMAIN nd.depth })

\* The flow nodes of one level: every key of the level takes a slot, a key
\* with a record gets a node.
RECURSIVE levelNodes(_, _, _, _)
levelNodes(tn, atLevel, index, depth) ==
    IF index > Len(atLevel) THEN <<>>
    ELSE LET nodeId     == atLevel[index]
             levelWidth == Len(atLevel) * U(HORIZONTAL_SPACING)
             startX     == (-levelWidth) \div 2 + U(HORIZONTAL_SPACING) \div 2
             position   == << startX + (index - 1) * U(HORIZONTAL_SPACING),
                              depth * U(VERTICAL_SPACING) >>
         IN  (IF nodeMapHas(tn, nodeId)
              THEN << flowNode(tn, nodeMapGet(tn, nodeId), nodeId, position) >>
              ELSE <<>>)
             \o levelNodes(tn, atLevel, index + 1, depth)

RECURSIVE placeLevels(_, _, _)
placeLevels(tn, nd, depth) ==
    IF depth > maxDepth(nd) THEN <<>>
    ELSE levelNodes(tn, nodesAtLevel(nd, depth), 1, depth)
         \o placeLevels(tn, nd, depth + 1)

---------------------------------------------------------------------------
(* Route planner: the shared routing data and the edges *)

\* nodePositions.get(id): top centre of the last flow node with that id.
positioned(fn, id) == \E i \in 1..Len(fn) : fn[i].id = id
nodePosition(fn, id) ==
    LET n == fn[Max({ i \in 1..Len(fn) : fn[i].id = id })]
    IN  [ x |-> n.position[1] + U(NODE_WIDTH) \div 2, y |-> n.position[2] ]

\* The (parent record, child id) pairs in the order of the two nested loops.
RECURSIVE childRefs(_)
childRefs(tn) ==
    IF tn = <<>> THEN <<>>
    ELSE [ k \in 1..Len(Head(tn).children) |->
             [ source |-> Head(tn).id, target |-> Head(tn).children[k] ] ]
         \o childRefs(Tail(tn))

\* `${Math.round(sourceY)}-${Math.round(targetY)}`
channelKey(sourceY, targetY) ==
    IntToks(MathRound(sourceY)) \o << "-" >> \o IntToks(MathRound(targetY))

\* The keys of edgesByLayers: source and target both positioned.
layerKeys(tn, fn) ==
    LET refs == childRefs(tn)
    IN  { channelKey(nodePosition(fn, refs[i].source).y + U(NODE_HEIGHT),
                     nodePosition(fn, refs[i].target).y) :
            i \in { j \in 1..Len(refs) : /\ positioned(fn, refs[j].source)
                                         /\ positioned(fn, refs[j].target) } }

\* The channel of a key: the key is split on '-' and its first two pieces
\* are read back with parseInt.
channelOfKey(key) ==
    LET pieces  == split(key, "-")
        sourceY == parseInt(pieces[1])
        targetY == parseInt(IF Len(pieces) >= 2 THEN pieces[2] ELSE <<>>)
    IN  IF isNaN(sourceY) \/ isNaN(targetY) THEN NaN
        ELSE Num((sourceY[1] + targetY[1]) \div 2)

horizontalChannels(tn, fn) ==
    [ key \in layerKeys(tn, fn) |-> channelOfKey(key) ]

\* edgesByTarget.get(targetId): the bottom Y of the source of every
\* reference to targetId whose source is positioned.
sourcesOf(tn, fn, targetId) ==
    LET refs == childRefs(tn)
        ToTarget(r) == r.target = targetId /\ positioned(fn, r.source)
        mine == SelectSeq(refs, ToTarget)
    IN  [ i \in 1..Len(mine) |-> nodePosition(fn, mine[i].source).y + U(NODE_HEIGHT) ]

\* The trunk taken from the first incoming edge instead of the highest one.
trunkOfFirstSource(tn, fn, targetId) ==
    LET sources   == sourcesOf(tn, fn, targetId)
        targetPos == nodePosition(fn, targetId)
    IN  [ x |-> targetPos.x, y |-> (sources[1] + targetPos.y) \div 2 ]

trunkOf(tn, fn, targetId) ==
    LET sources   == sourcesOf(tn, fn, targetId)
        targetPos == nodePosition(fn, targetId)
        trunkY    == (Min({ sources[i] : i \in 1..Len(sources) }) + targetPos.y) \div 2
    IN  [ x |-> targetPos.x, y |-> trunkY ]

verticalTrunks(tn, fn) ==
    LET refs    == childRefs(tn)
        targets == { refs[i].target : i \in 1..Len(refs) }
    IN  [ targetId \in { t \in targets : /\ Len(sourcesOf(tn, fn, t)) > 1
                                         /\ positioned(fn, t) }
            |-> trunkOf(tn, fn, targetId) ]

\* `${node.id}-${childId}`
edgeId(source, target) == source \o << "-" >> \o target

\* The edges with the color of the source in their style.
edgesOfSourceColor(tn) ==
    LET refs == childRefs(tn)
    IN  [ i \in 1..Len(refs) |->
            [ id     |-> edgeId(refs[i].source, refs[i].target),
              source |-> refs[i].source,
              target |-> refs[i].target,
              color  |-> nodeColor(tn, refs[i].source) ] ]

edgesOf(tn) ==
    LET refs == childRefs(tn)
    IN  [ i \in 1..Len(refs) |->
            [ id     |-> edgeId(refs[i].source, refs[i].target),
              source |-> refs[i].source,
              target |-> refs[i].target,
              color  |-> nodeColor(tn, refs[i].target) ] ]

\* calculateMergedPath with both "within 1" tests inclusive.
calculateMergedPathInclusive(sourceX, sourceY, targetX, targetY, targetId, routing) ==
    LET key         == channelKey(sourceY, targetY)
        hasChannel  == key \in DOMAIN routing.horizontalChannels
        hasTrunk    == targetId \in DOMAIN routing.verticalTrunks
        horizontalY == IF hasChannel THEN routing.horizontalChannels[key]
                       ELSE Num((sourceY + targetY) \div 2)
    IN  IF Abs(sourceX - targetX) <= U(1)
        THEN << << Num(sourceX), Num(sourceY) >>, << Num(targetX), Num(targetY) >> >>
        ELSE IF hasTrunk /\ Abs(routing.verticalTrunks[targetId].x - targetX) <= U(1)
        THEN LET trunkX == routing.verticalTrunks[targetId].x
             IN  << << Num(sourceX), Num(sourceY) >>, << Num(sourceX), horizontalY >>,
                    << Num(trunkX), horizontalY >>, << Num(trunkX), Num(targetY) >> >>
        ELSE << << Num(sourceX), Num(sourceY) >>, << Num(sourceX), horizontalY >>,
                << Num(targetX), horizontalY >>, << Num(targetX), Num(targetY) >> >>

\* calculateMergedPath: the points of the path, each << x, y >>, a
\* coordinate being a number that may be NaN.
calculateMergedPath(sourceX, sourceY, targetX, targetY, targetId, routing) ==
    LET key         == channelKey(sourceY, targetY)
        hasChannel  == key \in DOMAIN routing.horizontalChannels
        hasTrunk    == targetId \in DOMAIN routing.verticalTrunks
        horizontalY == IF hasChannel THEN routing.horizontalChannels[key]
                       ELSE Num((sourceY + targetY) \div 2)
    IN  IF Abs(sourceX - targetX) < U(1)
        THEN << << Num(sourceX), Num(sourceY) >>, << Num(targetX), Num(targetY) >> >>
        ELSE IF hasTrunk /\ Abs(routing.verticalTrunks[targetId].x - targetX) < U(1)
        THEN LET trunkX == routing.verticalTrunks[targetId].x
             IN  << << Num(sourceX), Num(sourceY) >>, << Num(sourceX), horizontalY >>,
                    << Num(trunkX), horizontalY >>, << Num(trunkX), Num(targetY) >> >>
        ELSE << << Num(sourceX), Num(sourceY) >>, << Num(sourceX), horizontalY >>,
                << Num(targetX), horizontalY >>, << Num(targetX), Num(targetY) >> >>

---------------------------------------------------------------------------
(* Snap assistant: handleNodesChange *)

SNAP_THRESHOLD == 15

\* The loop over nodes: x and y are rewritten as the loop goes, and the
\* later comparisons read the rewritten values.
\* The loop without its first line: the dragged node is compared too.
RECURSIVE snapLoopSelf(_, _, _)
snapLoopSelf(ns, draggedNodeId, xy) ==
    IF ns = <<>> THEN xy
    ELSE LET node == Head(ns)
             x == IF Abs(node.position[1] - xy[1]) < U(SNAP_THRESHOLD)
                  THEN node.position[1] ELSE xy[1]
             y == IF Abs(node.position[2] - xy[2]) < U(SNAP_THRESHOLD)
                  THEN node.position[2] ELSE xy[2]
         IN  snapLoopSelf(Tail(ns), draggedNodeId, << x, y >>)

RECURSIVE snapLoop(_, _, _)
snapLoop(ns, draggedNodeId, xy) ==
    IF ns = <<>> THEN xy
    ELSE LET node == Head(ns)
             x == IF Abs(node.position[1] - xy[1]) < U(SNAP_THRESHOLD)
                  THEN node.position[1] ELSE xy[1]
             y == IF Abs(node.position[2] - xy[2]) < U(SNAP_THRESHOLD)
                  THEN node.position[2] ELSE xy[2]
         IN  IF node.id = draggedNodeId
             THEN snapLoop(Tail(ns), draggedNodeId, xy)
             ELSE snapLoop(Tail(ns), draggedNodeId, << x, y >>)

\* onNodesChange (useNodesState): the change is applied to the node it names.
applyPosition(ns, id, position) ==
    [ i \in 1..Len(ns) |->
        IF ns[i].id = id THEN [ ns[i] EXCEPT !.position = position ] ELSE ns[i] ]

---------------------------------------------------------------------------
(* The handlers, as steps.  A load (handleFile) runs parseCSV and          *)
(* calculateTreeLayout to the end before any other handler runs: phase     *)
(* orders its steps.                                                       *)

emptyMap == [ order |-> <<>>, depth |-> <<>> ]
noRouting == [ horizontalChannels |-> <<>>, verticalTrunks |-> <<>>, nodeColors |-> <<>> ]

\* assignDepth without the early return: a node that already has a depth
\* has its children visited again.
assignDepthRevisiting(tn, nd, c) ==
    [ nodeDepths |-> IF has(nd, c.id) /\ c.depth <= nd.depth[c.id]
                     THEN nd ELSE mapSet(nd, c.id, c.depth),
      calls      |-> IF nodeMapHas(tn, c.id)
                     THEN LET children == nodeMapGet(tn, c.id).children
                          IN  [ k \in 1..Len(children) |->
                                  call(children[k], c.depth + 1) ]
                     ELSE <<>>,
      expanded   |-> IF nodeMapHas(tn, c.id) THEN << c.id >> ELSE <<>> ]

\* One invocation of assignDepth(nodeId, depth): the Map after it, the
\* invocations its children loop makes (in order), and whether that loop ran.
assignDepth(tn, nd, c) ==
    IF has(nd, c.id)
    THEN [ nodeDepths |-> IF c.depth > nd.depth[c.id]
                          THEN mapSet(nd, c.id, c.depth) ELSE nd,
           calls      |-> <<>>,
           expanded   |-> <<>> ]
    ELSE [ nodeDepths |-> mapSet(nd, c.id, c.depth),
           calls      |-> IF nodeMapHas(tn, c.id)
                          THEN LET children == nodeMapGet(tn, c.id).children
                               IN  [ k \in 1..Len(children) |->
                                       call(children[k], c.depth + 1) ]
                          ELSE <<>>,
           expanded   |-> IF nodeMapHas(tn, c.id) THEN << c.id >> ELSE <<>> ]

\* The records the second loop of the traversal still has to start from.
unvisited(tn, nd) == { i \in 1..Len(tn) : ~has(nd, tn[i].id) }

\* handleFile from the upload screen (drop or file input): the file is read.
HandleFile ==
    /\ phase = "idle"
    /\ graphData = <<>>
    /\ content' = file
    /\ loadedFrom' = "file"
    /\ phase' = "parse"
    /\ UNCHANGED << file, other, treeNodes, prevNodes, hasExplicitPositions, nodeDepths,
                    calls, expanded, flowNodes, flowEdges, routingData, graphData,
                    nodes, lastChange, lastPath, saved, moves >>

\* handlePaste on the upload screen: the clipboard text is taken when it
\* holds a comma.
HandlePaste ==
    /\ phase = "idle"
    /\ graphData = <<>>
    /\ \E k \in 1..Len(file) : file[k] = ","
    /\ content' = file
    /\ loadedFrom' = "paste"
    /\ phase' = "parse"
    /\ UNCHANGED << file, other, treeNodes, prevNodes, hasExplicitPositions, nodeDepths,
                    calls, expanded, flowNodes, flowEdges, routingData, graphData,
                    nodes, lastChange, lastPath, saved, moves >>

\* reader.onload / handlePaste: parseCSV(content).  Only handlePaste stops
\* when parsed.nodes is empty.
ParseCSV ==
    /\ phase = "parse"
    /\ treeNodes' = parseCSV(content)
    /\ prevNodes' = treeNodes
    /\ phase' = IF loadedFrom = "paste" /\ Len(parseCSV(content)) = 0
                 THEN "idle"
                 ELSE "layout"
    /\ UNCHANGED << file, other, content, hasExplicitPositions, nodeDepths, calls, expanded,
                    flowNodes, flowEdges, routingData, graphData, nodes, lastChange,
                    lastPath, saved, loadedFrom, moves >>

\* calculateTreeLayout up to the traversal: the mode, and either the
\* explicit nodes or the calls of the loop over rootIds.
BeginLayout ==
    /\ phase = "layout"
    /\ hasExplicitPositions' = everyHasPosition(treeNodes)
    /\ nodeDepths' = emptyMap
    /\ expanded' = <<>>
    /\ IF everyHasPosition(treeNodes)
       THEN /\ flowNodes' = explicitNodes(treeNodes)
            /\ calls' = <<>>
            /\ phase' = "route"
       ELSE /\ flowNodes' = <<>>
            /\ calls' = LET roots == rootIds(treeNodes, treeNodes)
                        IN  [ k \in 1..Len(roots) |-> call(roots[k], 0) ]
            /\ phase' = "depth"
    /\ UNCHANGED << file, other, content, treeNodes, prevNodes, flowEdges, routingData,
                    graphData, nodes, lastChange, lastPath, saved, loadedFrom, moves >>

\* The next invocation of assignDepth.
AssignDepth ==
    /\ phase = "depth"
    /\ calls # <<>>
    /\ LET r == assignDepth(treeNodes, nodeDepths, Head(calls))
       IN  /\ nodeDepths' = r.nodeDepths
           /\ calls' = r.calls \o Tail(calls)
           /\ expanded' = expanded \o r.expanded
    /\ UNCHANGED << file, other, phase, content, treeNodes, prevNodes, hasExplicitPositions,
                    flowNodes, flowEdges, routingData, graphData, nodes, lastChange,
                    lastPath, saved, loadedFrom, moves >>

\* The loop over treeNodes after the roots: the first record without a
\* depth is started at depth 0; without one the traversal is over.
FallbackLoop ==
    /\ phase = "depth"
    /\ calls = <<>>
    /\ IF unvisited(treeNodes, nodeDepths) # {}
       THEN /\ calls' = << call(treeNodes[Min(unvisited(treeNodes, nodeDepths))].id, 0) >>
            /\ phase' = phase
       ELSE /\ calls' = calls
            /\ phase' = "place"
    /\ UNCHANGED << file, other, content, treeNodes, prevNodes, hasExplicitPositions,
                    nodeDepths, expanded, flowNodes, flowEdges, routingData, graphData,
                    nodes, lastChange, lastPath, saved, loadedFrom, moves >>

\* nodeLevels and the positions of every level.
PlaceNodes ==
    /\ phase = "place"
    /\ flowNodes' = placeLevels(treeNodes, nodeDepths, 0)
    /\ phase' = "route"
    /\ UNCHANGED << file, other, content, treeNodes, prevNodes, hasExplicitPositions,
                    nodeDepths, calls, expanded, flowEdges, routingData, graphData,
                    nodes, lastChange, lastPath, saved, loadedFrom, moves >>

\* The routing data and the edges, then setGraphData(layout).  GraphView
\* takes initialNodes when it mounts (graphData was null) and keeps its
\* own nodes afterwards.
RouteEdges ==
    /\ phase = "route"
    /\ routingData' = [ horizontalChannels |-> horizontalChannels(treeNodes, flowNodes),
                        verticalTrunks     |-> verticalTrunks(treeNodes, flowNodes),
                        nodeColors         |-> nodeColors(treeNodes) ]
    /\ flowEdges' = edgesOf(treeNodes)
    /\ graphData' = << [ nodes |-> flowNodes, edges |-> flowEdges',
                         routing |-> routingData' ] >>
    /\ nodes' = IF graphData = <<>> THEN flowNodes ELSE nodes
    /\ phase' = "view"
    /\ UNCHANGED << file, other, content, treeNodes, prevNodes, hasExplicitPositions,
                    nodeDepths, calls, expanded, flowNodes, lastChange, lastPath,
                    saved, loadedFrom, moves >>

NextLoad ==
    \/ HandleFile
    \/ ParseCSV
    \/ BeginLayout
    \/ AssignDepth
    \/ FallbackLoop
    \/ PlaceNodes
    \/ RouteEdges

---------------------------------------------------------------------------
(* The handlers of GraphView *)

\* The position changes a drag may report, and how many the model follows.
MaxMoves == 1
DragXs == { U(0), U(17), U(38), U(39), U(40) }
DragYs == { U(14), U(66) }

\* handleNodesChange for one position change of a node of the view.
HandleNodesChange ==
    /\ phase = "view"
    /\ moves < MaxMoves
    /\ \E i \in 1..Len(nodes), x \in DragXs, y \in DragYs :
         LET draggedNodeId == nodes[i].id
             committed     == snapLoop(nodes, draggedNodeId, << x, y >>)
         IN  /\ lastChange' = << [ id        |-> draggedNodeId,
                                   position  |-> << x, y >>,
                                   before    |-> nodes,
                                   committed |-> committed ] >>
             /\ nodes' = applyPosition(nodes, draggedNodeId, committed)
    /\ moves' = moves + 1
    /\ UNCHANGED << file, other, phase, content, treeNodes, prevNodes, hasExplicitPositions,
                    nodeDepths, calls, expanded, flowNodes, flowEdges, routingData,
                    graphData, lastPath, saved, loadedFrom >>

\* What the renderer may pass OrthogonalEdge for a handle: the layout's
\* anchor, or one off it by half a unit or by one unit (a measured node
\* size that differs from NODE_WIDTH / NODE_HEIGHT).
SourceXSlack == { 0, U(1) }
SourceYSlack == { 0, U(1) \div 2 }
TargetXSlack == { 0, U(1) \div 2, U(1) }

viewHas(id) == \E i \in 1..Len(nodes) : nodes[i].id = id

\* routingData?.nodeColors.get(target): <<color>>, or <<>> for undefined.
targetColor(routing, target) ==
    IF target \in DOMAIN routing.nodeColors
    THEN << routing.nodeColors[target] >>
    ELSE <<>>

\* OrthogonalEdge: the path and the stroke of one edge whose two nodes are
\* in the view.
RenderEdge ==
    /\ phase = "view"
    /\ \E e \in 1..Len(graphData[1].edges), dsx \in SourceXSlack, dsy \in SourceYSlack,
          dtx \in TargetXSlack :
         LET edge    == graphData[1].edges[e]
             source  == nodePosition(nodes, edge.source)
             target  == nodePosition(nodes, edge.target)
             sourceX == source.x + dsx
             sourceY == source.y + U(NODE_HEIGHT) + dsy
             targetX == target.x + dtx
             targetY == target.y
         IN  /\ viewHas(edge.source)
             /\ viewHas(edge.target)
             /\ lastPath' = << [ edge    |-> edge,
                                 sourceX |-> sourceX, sourceY |-> sourceY,
                                 targetX |-> targetX, targetY |-> targetY,
                                 path    |-> calculateMergedPath(sourceX, sourceY,
                                               targetX, targetY, edge.target,
                                               graphData[1].routing),
                                 stroke  |-> targetColor(graphData[1].routing,
                                                         edge.target) ] >>
    /\ UNCHANGED << file, other, phase, content, treeNodes, prevNodes, hasExplicitPositions,
                    nodeDepths, calls, expanded, flowNodes, flowEdges, routingData,
                    graphData, nodes, lastChange, saved, loadedFrom, moves >>

\* handleSave: serializeToCSV(nodes, edges) is written out.
HandleSave ==
    /\ phase = "view"
    /\ saved' = << serializeToCSV(nodes, graphData[1].edges) >>
    /\ UNCHANGED << file, other, phase, content, treeNodes, prevNodes, hasExplicitPositions,
                    nodeDepths, calls, expanded, flowNodes, flowEdges, routingData,
                    graphData, nodes, lastChange, lastPath, loadedFrom, moves >>

\* handleLoadFile -> onLoad = handleFile: the toolbar's Load, given the
\* file Save wrote or the user's second file.
HandleLoadFile ==
    /\ phase = "view"
    /\ \E pick \in { "saved", "other" } :
         /\ pick = "saved" => saved # <<>>
         /\ content' = IF pick = "saved" THEN saved[1] ELSE other
         /\ loadedFrom' = pick
    /\ phase' = "parse"
    /\ UNCHANGED << file, other, treeNodes, prevNodes, hasExplicitPositions, nodeDepths,
                    calls, expanded, flowNodes, flowEdges, routingData, graphData,
                    nodes, lastChange, lastPath, saved, moves >>

\* handleReset: graphData is null again, and GraphView is unmounted.
HandleReset ==
    /\ phase = "view"
    /\ graphData' = <<>>
    /\ nodes' = <<>>
    /\ phase' = "idle"
    /\ UNCHANGED << file, other, content, treeNodes, prevNodes, hasExplicitPositions,
                    nodeDepths, calls, expanded, flowNodes, flowEdges, routingData,
                    lastChange, lastPath, saved, loadedFrom, moves >>

Next ==
    \/ NextLoad
    \/ HandlePaste
    \/ HandleNodesChange
    \/ RenderEdge
    \/ HandleSave
    \/ HandleLoadFile
    \/ HandleReset

---------------------------------------------------------------------------
(* Input files *)

\* Sequences over S of length at most k.
SeqsUpTo(S, k) == UNION { [ 1..m -> S ] : m \in 0..k }

\* The id of the i-th record of a generated file, and an id no record has.
idOf(i) == << ToString(i - 1) >>
Dangling == << "9" >>

\* One record: id,label,children and, with a position field, ,x;y
recordLine(id, label, children, positionField) ==
    id \o << "," >> \o label \o << "," >> \o join(children, ";") \o positionField

\* A file of records i = 1..n with ids idOf(i).
fileOf(labels, children, positionFields) ==
    join([ i \in 1..Len(children) |->
             recordLine(idOf(i), labels[i], children[i], positionFields[i]) ], "\n")

\* The state after App is constructed: the upload screen.
InitShell ==
    /\ phase = "idle"
    /\ content = <<>>
    /\ treeNodes = <<>>
    /\ prevNodes = <<>>
    /\ hasExplicitPositions = FALSE
    /\ nodeDepths = emptyMap
    /\ calls = <<>>
    /\ expanded = <<>>
    /\ flowNodes = <<>>
    /\ flowEdges = <<>>
    /\ routingData = noRouting
    /\ graphData = <<>>
    /\ nodes = <<>>
    /\ lastChange = <<>>
    /\ lastPath = <<>>
    /\ saved = <<>>
    /\ loadedFrom = "file"
    /\ moves = 0

\* The user holds one file.
InitWith(files) ==
    /\ file \in files
    /\ other = file
    /\ InitShell

(* Graph shapes: files without positions, for the auto layout. *)

MaxNodes == 3
MaxEdges == 3

\* The children lists of records i..n that use at most `budget` references.
RECURSIVE shapes(_, _, _, _)
shapes(n, i, budget, childIds) ==
    IF i > n THEN { <<>> }
    ELSE UNION { { << l >> \o g : g \in shapes(n, i + 1, budget - Len(l), childIds) } :
                 l \in SeqsUpTo(childIds, budget) }

plainFile(children) ==
    fileOf([ i \in 1..Len(children) |-> << "N" >> ], children,
           [ i \in 1..Len(children) |-> <<>> ])

layoutFiles(n, edges) ==
    { plainFile(g) :
        g \in shapes(n, 1, edges, { idOf(i) : i \in 1..n } \cup { Dangling }) }

InitLayout == InitWith(UNION { layoutFiles(n, MaxEdges) : n \in 1..MaxNodes })
SpecLayout == InitLayout /\ [][NextLoad]_vars

(* The same shapes with fewer records, for the traversal's termination. *)

CycleNodes == 2
CycleEdges == 2

InitCycle == InitWith(UNION { layoutFiles(n, CycleEdges) : n \in 1..CycleNodes })
SpecCycle == InitCycle /\ [][NextLoad]_vars
\* calculateTreeLayout is one synchronous call: once it has started, its
\* steps are taken until it returns.
FairCycle ==
    SpecCycle /\ WF_vars(AssignDepth \/ FallbackLoop \/ PlaceNodes \/ RouteEdges)

(* Codec files: records with labels, padded and empty pieces, and position *)
(* fields that are whole, fractional, negative, followed by other text,    *)
(* unreadable or missing.                                                  *)

CodecNodes == 2

\* The label of the i-th record: padded, or empty.
codecLabel(i) == IF i % 2 = 1 THEN << " ", "a", " ", "b" >> ELSE <<>>

CodecChildren ==
    { <<>>,
      << idOf(2) >>,
      << idOf(1), idOf(1) >>,
      << << " ", "9", " " >>, <<>>, idOf(2) >> }

CodecPositions ==
    { <<>>,
      << ",", "10", ";", "20" >>,
      << ",", " ", "-", "3", ".", "5", ";", "0", ".", "5" >>,
      << ",", "-", "0", ".", "5", " ", ";", " ", "2", ".", "5", "px" >>,
      << ",", "x", ";", "1" >> }

codecFiles(n) ==
    { fileOf([ i \in 1..n |-> codecLabel(i) ], c, p) :
        c \in [ 1..n -> CodecChildren ], p \in [ 1..n -> CodecPositions ] }

InitCodec == InitWith(UNION { codecFiles(n) : n \in 1..CodecNodes })
SpecCodec == InitCodec /\ [][NextLoad \/ HandleSave \/ HandleLoadFile]_vars

(* Routing files: records that refer to later records or to no record,    *)
(* laid out automatically or at stored positions taken from a few places   *)
(* (above the origin, half a unit off, a layer below).                     *)

RouteNodes == 3
RouteRefs == 2

RECURSIVE routeShapes(_, _, _)
routeShapes(n, i, budget) ==
    IF i > n THEN { <<>> }
    ELSE UNION { { << l >> \o g : g \in routeShapes(n, i + 1, budget - Len(l)) } :
                 l \in SeqsUpTo({ idOf(j) : j \in (i + 1)..n } \cup { Dangling }, budget) }

RoutePositions ==
    { << ",", "0", ";", "-", "200" >>,
      << ",", "0", ".", "5", ";", "0", ".", "5" >>,
      << ",", "200", ";", "120" >> }

\* No record with a position field, or every record with one of `positions`.
placements(n, positions) == { [ i \in 1..n |-> <<>> ] } \cup [ 1..n -> positions ]

routeFiles(n, refs, positions) ==
    { fileOf([ i \in 1..n |-> << "N" >> ], g, p) :
        g \in routeShapes(n, 1, refs), p \in placements(n, positions) }

InitRoute ==
    InitWith(UNION { routeFiles(n, RouteRefs, RoutePositions) : n \in 1..RouteNodes })
SpecRoute == InitRoute /\ [][NextLoad]_vars

(* The same files with fewer records and places, for the edges the view   *)
(* renders.                                                                *)

PathNodes == 2
PathRefs == 2

PathPositions ==
    { << ",", "0", ".", "5", ";", "0", ".", "5" >>,
      << ",", "200", ";", "120" >> }

InitPath ==
    InitWith(UNION { routeFiles(n, PathRefs, PathPositions) : n \in 1..PathNodes })
SpecPath == InitPath /\ [][NextLoad \/ RenderEdge]_vars

(* Snap files: records without children, laid out automatically or at     *)
(* stored positions one snap distance apart or far apart.                  *)

SnapNodes == 3

SnapPositions ==
    { << ",", "10", ";", "0" >>, << ",", "10", ";", "50" >>,
      << ",", "24", ";", "0" >>, << ",", "24", ";", "50" >> }

snapFiles(n) ==
    { fileOf([ i \in 1..n |-> << "N" >> ], [ i \in 1..n |-> <<>> ], p) :
        p \in { [ i \in 1..n |-> <<>> ] } \cup [ 1..n -> SnapPositions ] }

InitSnap == InitWith(UNION { snapFiles(n) : n \in 1..SnapNodes })
SpecSnap == InitSnap /\ [][NextLoad \/ HandleNodesChange]_vars

(* Parser files: lines with no, one, two and more fields, and fourth      *)
(* fields with one, two and three pieces, readable, unreadable and         *)
(* infinite.                                                               *)

ParseLines == 2

ParseRecords ==
    { <<>>,
      << "x" >>,
      << "," >>,
      << "0", ",", "A" >>,
      << "0", ",", "A", ",", "1", ",", "1", ";", "2" >>,
      << "0", ",", "A", ",", ",", "1", ";", "2", ";", "3" >>,
      << "0", ",", "A", ",", ",", "1" >>,
      << "0", ",", "A", ",", ",", "1", ";", "x" >>,
      << "0", ",", "A", ",", ",", " ", ";", " " >>,
      << "0", ",", "A", ",", ",", "Infinity", ";", "0" >>,
      << "0", ",", "A", ",", ",", "2", ";", "-", "Infinity" >>,
      << "0", ",", "A", ",", ",", "1", ".", "5", "px", ";", "2", ",", "z" >> }

parseFiles(n) == { join(ls, "\n") : ls \in [ 1..n -> ParseRecords ] }

InitParse == InitWith(UNION { parseFiles(n) : n \in 1..ParseLines })
SpecParse == InitParse /\ [][HandleFile \/ ParseCSV]_vars

(* Inputs of the shell: texts without a record among ordinary files, as  *)
(* the first file and as the file picked with Load.                       *)

ShellNodes == 2
ShellEdges == 1

NoRecordTexts == { <<>>, << "x" >>, << " " >>, << "x", "\n", "y" >> }

shellFiles(n, edges) == NoRecordTexts \cup UNION { layoutFiles(m, edges) : m \in 1..n }

InitInput ==
    /\ file \in shellFiles(ShellNodes, ShellEdges)
    /\ other \in shellFiles(ShellNodes, ShellEdges)
    /\ InitShell
SpecInput == InitInput /\ [][NextLoad \/ HandlePaste \/ HandleLoadFile \/ HandleReset]_vars

(* Records that share ids: each record takes one of two ids, its own     *)
(* label, and at most one child.                                          *)

DupNodes == 3

DupIds == { idOf(1), idOf(2) }
dupLabel(i) == << "L", ToString(i) >>

dupFiles(n) ==
    { join([ i \in 1..n |-> recordLine(ids[i], dupLabel(i), children[i], <<>>) ], "\n") :
        ids \in [ 1..n -> DupIds ],
        children \in [ 1..n -> SeqsUpTo(DupIds \cup { Dangling }, 1) ] }

InitDup == InitWith(UNION { dupFiles(n) : n \in 2..DupNodes })
SpecDup == InitDup /\ [][NextLoad]_vars

(* More records than COLORS has entries, with one reference from any     *)
(* record to any record or to an id no record has; the last record may    *)
(* repeat the id of the second.                                           *)

ColorNodes == 13

NoRecordId == << "x" >>

colorFiles(n) ==
    { join([ i \in 1..n |->
              recordLine(IF repeat /\ i = n THEN idOf(2) ELSE idOf(i), << "N" >>,
                         IF i = u THEN << v >> ELSE <<>>, <<>>) ], "\n") :
        u \in 1..n, v \in { idOf(j) : j \in 1..n } \cup { NoRecordId },
        repeat \in BOOLEAN }

InitColor == InitWith(colorFiles(ColorNodes))
SpecColor == InitColor /\ [][NextLoad \/ RenderEdge]_vars

(* A session: a first file, a second file with one record more for Load, *)
(* moves, Save, Reset.                                                    *)

SessionNodes == 2
SessionEdges == 1

InitSession ==
    /\ file \in layoutFiles(SessionNodes - 1, SessionEdges)
    /\ other \in layoutFiles(SessionNodes, SessionEdges)
    /\ InitShell
SpecSession ==
    InitSession /\ [][NextLoad \/ HandleNodesChange \/ HandleSave
                        \/ HandleLoadFile \/ HandleReset]_vars

(* Records with different ids, some of which hold a '-', and children    *)
(* lists that may repeat an id.                                           *)

EdgeIdNodes == 2
EdgeIdRefs == 2

EdgeIdPool == { << "1" >>, << "3" >>, << "1", "-", "2" >>, << "2", "-", "3" >> }

edgeIdFiles(n, refs) ==
    { join([ i \in 1..n |-> recordLine(ids[i], << "N" >>, g[i], <<>>) ], "\n") :
        ids \in { q \in [ 1..n -> EdgeIdPool ] : \A i, j \in 1..n : q[i] = q[j] => i = j },
        g \in shapes(n, 1, refs, EdgeIdPool) }

InitEdgeId == InitWith(UNION { edgeIdFiles(n, EdgeIdRefs) : n \in 1..EdgeIdNodes })
SpecEdgeId == InitEdgeId /\ [][NextLoad]_vars

(* Acyclic shapes: every reference goes to a later record. *)

DagNodes == 4
DagEdges == 4

RECURSIVE dagShapes(_, _, _)
dagShapes(n, i, budget) ==
    IF i > n THEN { <<>> }
    ELSE UNION { { << l >> \o g : g \in dagShapes(n, i + 1, budget - Len(l)) } :
                 l \in SeqsUpTo({ idOf(j) : j \in (i + 1)..n }, budget) }

dagFiles(n) == { plainFile(g) : g \in dagShapes(n, 1, DagEdges) }

InitDag == InitWith(UNION { dagFiles(n) : n \in 1..DagNodes })
SpecDag == InitDag /\ [][NextLoad]_vars

(* The whole application on one parent and child, laid out automatically *)
(* or at stored positions: load, move, render, save and load again.       *)

AppFiles ==
    { fileOf(<< << "N" >>, << "N" >> >>, << << idOf(2) >>, <<>> >>, p) :
        p \in { [ i \in 1..2 |-> <<>> ],
                [ i \in 1..2 |-> << ",", "10", ";", "0" >> ] } }

Init == InitWith(AppFiles)
Spec == Init /\ [][Next]_vars

---------------------------------------------------------------------------
(* C1 *)

uniqueIds(tn) == \A i, j \in 1..Len(tn) : tn[i].id = tn[j].id => i = j

\* The file just loaded is the one Save wrote for the load before it, and
\* that load's records all had positions and different ids.
RoundTripDone ==
    /\ phase = "view"
    /\ loadedFrom = "saved"
    /\ everyHasPosition(prevNodes)
    /\ uniqueIds(prevNodes)

\* C1: round trip.  For a text whose records all carry a position and have
\* different ids, parsing what Save writes for its layout gives the same ids
\* in the same order, the same children per record, and the positions
\* rounded to integers.
C1_RoundTrip ==
    RoundTripDone =>
        /\ Len(treeNodes) = Len(prevNodes)
        /\ \A i \in 1..Len(prevNodes) :
             /\ treeNodes[i].id = prevNodes[i].id
             /\ treeNodes[i].children = prevNodes[i].children
             /\ treeNodes[i].children = childrenMap(graphData[1].edges, prevNodes[i].id)
             /\ treeNodes[i].position =
                  << U(MathRound(prevNodes[i].position[1])),
                     U(MathRound(prevNodes[i].position[2])) >>

\* A round trip of two records with a fractional position and a child.
C1_Witness ==
    /\ RoundTripDone
    /\ Len(prevNodes) = 2
    /\ \E i \in 1..2 : prevNodes[i].position[1] % Scale # 0
    /\ \E i \in 1..2 : Len(prevNodes[i].children) = 2

---------------------------------------------------------------------------
(* C2 *)

\* The traversal of an auto layout is over.
DepthsAssigned == phase \in { "place", "route", "view" } /\ ~hasExplicitPositions

depthOf(id) == nodeDepths.depth[id]

\* C2: depth monotonicity.  Once the depths of an auto layout are assigned,
\* every reference u -> v to a record has depth(v) >= depth(u) + 1.  Stated
\* for the files of SpecDag, which are all acyclic.
C2_DepthMonotone ==
    DepthsAssigned =>
        \A i \in 1..Len(treeNodes) : \A k \in 1..Len(treeNodes[i].children) :
            nodeMapHas(treeNodes, treeNodes[i].children[k]) =>
                depthOf(treeNodes[i].children[k]) >= depthOf(treeNodes[i].id) + 1

---------------------------------------------------------------------------
(* C3 *)

\* No id had its children loop run twice.
ExpandedOnce == \A i, j \in 1..Len(expanded) : expanded[i] = expanded[j] => i = j

\* The layout has returned and every record has a depth.
LayoutDone ==
    /\ phase = "view"
    /\ \A i \in 1..Len(treeNodes) :
         /\ has(nodeDepths, treeNodes[i].id)
         /\ depthOf(treeNodes[i].id) \in Nat

\* C3: cycle termination.  For every file of SpecCycle (cycles, self
\* references and files without a root among them) the traversal ends, every
\* record then has a depth, and no node's children are expanded twice.
C3_CycleTermination ==
    /\ []ExpandedOnce
    /\ (phase = "depth") ~> LayoutDone

\* A laid out file without any root: two records, each the other's child.
C3_Witness ==
    /\ LayoutDone
    /\ rootIds(treeNodes, treeNodes) = <<>>
    /\ \E i, j \in 1..Len(treeNodes) :
         /\ i # j
         /\ treeNodes[j].id \in
              { treeNodes[i].children[k] : k \in 1..Len(treeNodes[i].children) }
         /\ treeNodes[i].id \in
              { treeNodes[j].children[k] : k \in 1..Len(treeNodes[j].children) }

---------------------------------------------------------------------------
(* C4 *)

\* calculateTreeLayout has placed its nodes.
NodesPlaced == phase \in { "route", "view" }

orderIndex(id) == CHOOSE k \in 1..Len(nodeDepths.order) : nodeDepths.order[k] = id

\* The keys of nodeDepths on the level of id, and those of them before id.
levelOf(id) ==
    { k \in 1..Len(nodeDepths.order) : depthOf(nodeDepths.order[k]) = depthOf(id) }
slotOf(id) == Cardinality({ k \in levelOf(id) : k < orderIndex(id) })

\* The position the auto layout computes for a key of nodeDepths.
layerPosition(id) ==
    << (-(Cardinality(levelOf(id)) * U(HORIZONTAL_SPACING))) \div 2
         + U(HORIZONTAL_SPACING) \div 2 + slotOf(id) * U(HORIZONTAL_SPACING),
       depthOf(id) * U(VERTICAL_SPACING) >>

\* C4: explicit-mode trigger.  The layout passes the stored positions
\* through if and only if every record has one; if one record has none,
\* every node gets its computed layer position and no stored position is used.
C4_ExplicitModeTrigger ==
    NodesPlaced =>
        /\ hasExplicitPositions <=>
             \A i \in 1..Len(treeNodes) : treeNodes[i].position # NoPosition
        /\ hasExplicitPositions =>
             /\ Len(flowNodes) = Len(treeNodes)
             /\ \A i \in 1..Len(treeNodes) :
                  /\ flowNodes[i].id = treeNodes[i].id
                  /\ flowNodes[i].position = treeNodes[i].position
        /\ ~hasExplicitPositions =>
             \A j \in 1..Len(flowNodes) :
                 flowNodes[j].position = layerPosition(flowNodes[j].id)

\* A record with a stored position laid out next to one without: its node
\* is not at the stored position.
C4_Witness ==
    /\ phase = "view"
    /\ ~hasExplicitPositions
    /\ \E i \in 1..Len(treeNodes), j \in 1..Len(flowNodes) :
         /\ treeNodes[i].position # NoPosition
         /\ flowNodes[j].id = treeNodes[i].id
         /\ flowNodes[j].position # treeNodes[i].position

---------------------------------------------------------------------------
(* C5 *)

\* The layout has returned: nodes, edges and routing data are in the view.
Routed == phase = "view"

\* The bottom Y of a positioned source and the top Y of a positioned target.
sourceBottomY(id) == nodePosition(flowNodes, id).y + U(NODE_HEIGHT)
targetTopY(id) == nodePosition(flowNodes, id).y

\* The edges both of whose ends have a position.
resolvedRefs ==
    LET refs == childRefs(treeNodes)
    IN  { refs[i] : i \in { j \in 1..Len(refs) :
                              /\ positioned(flowNodes, refs[j].source)
                              /\ positioned(flowNodes, refs[j].target) } }

\* C5: channel sharing.  Every edge between positioned nodes finds, under
\* the key of its rounded (source-bottom Y, target-top Y) pair, one channel
\* in horizontalChannels, and the channel is the midpoint of the pair.
C5_ChannelSharing ==
    Routed =>
        \A r \in resolvedRefs :
            LET sourceY == MathRound(sourceBottomY(r.source))
                targetY == MathRound(targetTopY(r.target))
                key     == channelKey(sourceBottomY(r.source), targetTopY(r.target))
            IN  /\ key \in DOMAIN routingData.horizontalChannels
                /\ routingData.horizontalChannels[key]
                     = Num((U(sourceY) + U(targetY)) \div 2)

---------------------------------------------------------------------------
(* C6 *)

\* Every id the file mentions: the ids of its records and of their children.
mentionedIds ==
    { treeNodes[i].id : i \in 1..Len(treeNodes) }
      \cup { childRefs(treeNodes)[i].target : i \in 1..Len(childRefs(treeNodes)) }

\* The edges into an id, as indices of the (parent, child) pairs.
incoming(id) ==
    { i \in 1..Len(childRefs(treeNodes)) : childRefs(treeNodes)[i].target = id }

minSourceBottomY(id) ==
    Min({ sourceBottomY(childRefs(treeNodes)[i].source) : i \in incoming(id) })

\* The entry the claim describes for a positioned target.
expectedTrunk(id) ==
    [ x |-> nodePosition(flowNodes, id).x,
      y |-> (minSourceBottomY(id) + targetTopY(id)) \div 2 ]

\* C6 as stated: trunk merging.  verticalTrunks has an entry for every
\* target id with more than one incoming edge and for no other id.
C6_TrunkForEveryTarget ==
    Routed =>
        \A id \in mentionedIds :
            (Cardinality(incoming(id)) > 1) <=> (id \in DOMAIN routingData.verticalTrunks)

\* C6: trunk merging, for the ids that are nodes of the layout.  A node with
\* more than one incoming edge has one entry in verticalTrunks, at its
\* x-center and at the midpoint of the least source-bottom Y of its incoming
\* edges and its top Y; no other id has an entry.
C6_TrunkMerging ==
    Routed =>
        /\ DOMAIN routingData.verticalTrunks \subseteq
             { id \in mentionedIds : positioned(flowNodes, id) }
        /\ \A id \in mentionedIds :
             positioned(flowNodes, id) =>
                 IF Cardinality(incoming(id)) > 1
                 THEN /\ id \in DOMAIN routingData.verticalTrunks
                      /\ routingData.verticalTrunks[id] = expectedTrunk(id)
                 ELSE id \notin DOMAIN routingData.verticalTrunks

\* A node with a trunk whose incoming edges leave sources of different
\* heights, the first of them not the highest.
C6_Witness ==
    /\ Routed
    /\ \E id \in DOMAIN routingData.verticalTrunks :
         \E i, j \in incoming(id) :
             /\ i < j
             /\ sourceBottomY(childRefs(treeNodes)[j].source)
                  < sourceBottomY(childRefs(treeNodes)[i].source)

---------------------------------------------------------------------------
(* C7 *)

\* The channel Y and the x of the last leg the claim gives the rendered edge.
pathChannelY ==
    LET p   == lastPath[1]
        key == channelKey(p.sourceY, p.targetY)
    IN  IF key \in DOMAIN graphData[1].routing.horizontalChannels
        THEN graphData[1].routing.horizontalChannels[key]
        ELSE Num((p.sourceY + p.targetY) \div 2)

pathEndX ==
    LET p      == lastPath[1]
        trunks == graphData[1].routing.verticalTrunks
    IN  IF /\ p.edge.target \in DOMAIN trunks
           /\ Abs(trunks[p.edge.target].x - p.targetX) < U(1)
        THEN trunks[p.edge.target].x
        ELSE p.targetX

\* C7: path shape.  The path of a rendered edge is one straight segment when
\* source and target x are less than 1 apart; otherwise it goes down to the
\* channel Y, across to the target's x (the trunk's x when the target has a
\* trunk within 1 of it) and down to the target, the channel Y being the
\* shared channel of the edge's rounded key or, without one, the midpoint.
C7_PathShape ==
    lastPath # <<>> =>
        LET p == lastPath[1]
        IN  IF Abs(p.sourceX - p.targetX) < U(1)
            THEN p.path = << << Num(p.sourceX), Num(p.sourceY) >>,
                             << Num(p.targetX), Num(p.targetY) >> >>
            ELSE /\ Len(p.path) = 4
                 /\ p.path[1] = << Num(p.sourceX), Num(p.sourceY) >>
                 /\ p.path[2] = << Num(p.sourceX), pathChannelY >>
                 /\ p.path[3] = << Num(pathEndX), pathChannelY >>
                 /\ p.path[4] = << Num(pathEndX), Num(p.targetY) >>

\* A rendered edge that crosses on a shared channel to a trunk half a unit
\* off the target's x.
C7_Witness ==
    /\ lastPath # <<>>
    /\ Len(lastPath[1].path) = 4
    /\ channelKey(lastPath[1].sourceY, lastPath[1].targetY)
         \in DOMAIN graphData[1].routing.horizontalChannels
    /\ ~isNaN(pathChannelY)
    /\ lastPath[1].edge.target \in DOMAIN graphData[1].routing.verticalTrunks
    /\ pathEndX # lastPath[1].targetX

---------------------------------------------------------------------------
(* C8 *)

\* The nodes other than the moved one, as handleNodesChange saw them.
others ==
    { i \in 1..Len(lastChange[1].before) :
        lastChange[1].before[i].id # lastChange[1].id }

\* The value of other node i on an axis (1: x, 2: y).
otherAt(i, axis) == lastChange[1].before[i].position[axis]

candidate(axis) == lastChange[1].position[axis]
committed(axis) == lastChange[1].committed[axis]

---------------------------------------------------------------------------
(* C9 *)

\* The auto layout has placed its nodes and returned.
AutoDone == phase = "view" /\ ~hasExplicitPositions

\* The index of the record that gave flow node j (ids are unique here).
recordIndex(j) == CHOOSE i \in 1..Len(treeNodes) : treeNodes[i].id = flowNodes[j].id

sameLayer(a, b) == flowNodes[a].position[2] = flowNodes[b].position[2]

\* C9 as stated: layer order.  Two nodes of one layer stand left to right in
\* the order of their records in the input.
C9_InputOrder ==
    AutoDone =>
        \A a, b \in 1..Len(flowNodes) :
            (sameLayer(a, b) /\ recordIndex(a) < recordIndex(b))
                => flowNodes[a].position[1] < flowNodes[b].position[1]

\* C9: layer order.  Two nodes of one layer stand left to right in the order
\* in which the traversal first reached them (the key order of nodeDepths).
C9_LayerOrder ==
    AutoDone =>
        \A a, b \in 1..Len(flowNodes) :
            (sameLayer(a, b) /\ orderIndex(flowNodes[a].id) < orderIndex(flowNodes[b].id))
                => flowNodes[a].position[1] < flowNodes[b].position[1]

\* Two nodes of one layer, the later record reached first and standing left.
C9_Witness ==
    /\ AutoDone
    /\ \E a, b \in 1..Len(flowNodes) :
         /\ sameLayer(a, b)
         /\ recordIndex(a) < recordIndex(b)
         /\ orderIndex(flowNodes[b].id) < orderIndex(flowNodes[a].id)
         /\ flowNodes[b].position[1] < flowNodes[a].position[1]

---------------------------------------------------------------------------
(* C10 *)

\* The placed nodes of the layer of flow node j, and those left of it.
layerOf(j) == { k \in 1..Len(flowNodes) : sameLayer(j, k) }
leftOf(j) ==
    { k \in layerOf(j) : flowNodes[k].position[1] < flowNodes[j].position[1] }

\* C10: layer centering.  The n placed nodes of a layer are 200 apart, the
\* first at -(n * 200) / 2 + 200 / 2, and every node has y = depth * 120.
C10_LayerCentering ==
    AutoDone =>
        \A j \in 1..Len(flowNodes) :
            /\ flowNodes[j].position[1] =
                 (-(Cardinality(layerOf(j)) * U(HORIZONTAL_SPACING))) \div 2
                   + U(HORIZONTAL_SPACING) \div 2
                   + Cardinality(leftOf(j)) * U(HORIZONTAL_SPACING)
            /\ flowNodes[j].position[2] = depthOf(flowNodes[j].id) * U(VERTICAL_SPACING)

---------------------------------------------------------------------------
(* C11 *)

\* The ids that appear in no record's children list.
notAChild ==
    { treeNodes[i].id : i \in 1..Len(treeNodes) } \ allChildIds(treeNodes)

\* The ids reached from the ids of S by following children lists.
RECURSIVE reachedFrom(_)
reachedFrom(S) ==
    LET more == S \cup UNION { { treeNodes[i].children[k] :
                                   k \in 1..Len(treeNodes[i].children) } :
                               i \in { j \in 1..Len(treeNodes) : treeNodes[j].id \in S } }
    IN  IF more = S THEN S ELSE reachedFrom(more)

\* C11: roots and fallback depth.  The roots are the ids that are nobody's
\* child and have depth 0; every record the traversal from the roots does
\* not reach has depth 0.
C11_RootsAndFallback ==
    AutoDone =>
        /\ { rootIds(treeNodes, treeNodes)[k] :
               k \in 1..Len(rootIds(treeNodes, treeNodes)) } = notAChild
        /\ \A id \in notAChild : depthOf(id) = 0
        /\ \A i \in 1..Len(treeNodes) :
             treeNodes[i].id \notin reachedFrom(notAChild) => depthOf(treeNodes[i].id) = 0

---------------------------------------------------------------------------
(* C12 *)

\* parseCSV has returned.
Parsed == phase = "layout"

\* The lines of the text that have at least two comma-separated fields.
recordLines ==
    LET TwoFields(line) == Len(split(line, ",")) >= 2
    IN  SelectSeq(split(trim(content), "\n"), TwoFields)

\* The 4th field of the line holds two ';'-separated values that both
\* parse as finite numbers.
holdsFinitePair(line) ==
    /\ Len(split(line, ",")) >= 4
    /\ LET pieces == split(trim(split(line, ",")[4]), ";")
       IN  /\ Len(pieces) >= 2
           /\ isFinite(parseFloat(pieces[1]))
           /\ isFinite(parseFloat(pieces[2]))

\* C12: permissive position parsing.  parseCSV returns one node for every
\* line with at least two fields, and the node has a position if and only
\* if the line's 4th field holds two values that parse as finite numbers.
C12_PermissivePositions ==
    Parsed =>
        /\ Len(treeNodes) = Len(recordLines)
        /\ \A i \in 1..Len(treeNodes) :
             (treeNodes[i].position # NoPosition) <=> holdsFinitePair(recordLines[i])

---------------------------------------------------------------------------
(* C13 *)

\* graphData holds the layout of a text in which parseCSV found no record.
EmptyGraphShown ==
    /\ phase = "view"
    /\ Len(treeNodes) = 0
    /\ graphData # <<>>
    /\ graphData[1].nodes = <<>>

\* C13: zero usable nodes.  A text that parses to no node, whether dropped,
\* picked, pasted or picked with Load, never becomes graphData: the graph
\* view is not entered from the upload screen, and a graph on show is not
\* replaced.
C13_ZeroUsableNodes == ~EmptyGraphShown

---------------------------------------------------------------------------
(* C14 *)

firstRecord(id) == treeNodes[Min(indicesOf(treeNodes, id))]
lastRecord(id) == treeNodes[Max(indicesOf(treeNodes, id))]

recordIds == { treeNodes[i].id : i \in 1..Len(treeNodes) }
childrenSet(node) == { node.children[k] : k \in 1..Len(node.children) }

\* Every line of the text became a record, and the auto layout placed one
\* node per id.
AllRecordsKept ==
    /\ Len(treeNodes) = Len(split(content, "\n"))
    /\ { flowNodes[k].id : k \in 1..Len(flowNodes) } = recordIds
    /\ Len(flowNodes) = Cardinality(recordIds)

\* C14 as stated: duplicate ids.  Records that share an id are all parsed,
\* and the layout's lookups by id give the record read first: the placed
\* node has its label and children, and the traversal descends into its
\* children.
C14_FirstRecordWins ==
    AutoDone =>
        /\ AllRecordsKept
        /\ \A k \in 1..Len(flowNodes) :
             /\ flowNodes[k].label = firstRecord(flowNodes[k].id).label
             /\ flowNodes[k].children = firstRecord(flowNodes[k].id).children
        /\ DOMAIN nodeDepths.depth =
             recordIds \cup UNION { childrenSet(firstRecord(id)) : id \in recordIds }

\* C14: duplicate ids.  Records that share an id are all parsed, and the
\* layout's lookups by id give the record read last: the placed node has
\* its label and children, and the traversal descends into its children.
C14_LastRecordWins ==
    AutoDone =>
        /\ AllRecordsKept
        /\ \A k \in 1..Len(flowNodes) :
             /\ flowNodes[k].label = lastRecord(flowNodes[k].id).label
             /\ flowNodes[k].children = lastRecord(flowNodes[k].id).children
        /\ DOMAIN nodeDepths.depth =
             recordIds \cup UNION { childrenSet(lastRecord(id)) : id \in recordIds }

\* Two records of one id, of which only the first has a child, and that
\* child is no record.
C14_Witness ==
    /\ AutoDone
    /\ \E i, j \in 1..Len(treeNodes) :
         /\ i < j
         /\ treeNodes[i].id = treeNodes[j].id
         /\ j = Max(indicesOf(treeNodes, treeNodes[j].id))
         /\ treeNodes[i].children = << Dangling >>
         /\ treeNodes[j].children = <<>>

---------------------------------------------------------------------------
(* C15 *)

\* The color of the record at index i (from 1): COLORS[(i - 1) mod 12].
paletteColor(i) == (i - 1) % NumColors

\* The last record that carries the id.
lastIndex(id) == Max(indicesOf(treeNodes, id))

\* C15: edge color.  Once a layout is on show, the node of each id has the
\* palette color of the id's index in the input (the last one if the id
\* repeats), wrapping after 12; every edge whose target is a record has
\* the color of its target in its style, and the renderer's lookup in
\* the routing data gives the same color for it.
C15_EdgeColor ==
    Routed =>
        /\ \A k \in 1..Len(flowNodes) :
             flowNodes[k].color = paletteColor(lastIndex(flowNodes[k].id))
        /\ \A e \in 1..Len(graphData[1].edges) :
             LET edge == graphData[1].edges[e]
             IN  edge.target \in recordIds =>
                   /\ edge.color = paletteColor(lastIndex(edge.target))
                   /\ targetColor(graphData[1].routing, edge.target) = << edge.color >>
        /\ lastPath # <<>> => lastPath[1].stroke = << lastPath[1].edge.color >>

\* A rendered edge into the thirteenth record from a record of another
\* color.
C15_Witness ==
    /\ Routed
    /\ lastPath # <<>>
    /\ lastIndex(lastPath[1].edge.target) > NumColors
    /\ lastPath[1].stroke = << paletteColor(lastIndex(lastPath[1].edge.target)) >>
    /\ lastPath[1].stroke # << nodeColor(treeNodes, lastPath[1].edge.source) >>

---------------------------------------------------------------------------
(* C16 *)

\* What a node shows apart from where it is.
nodeFacts(ns) ==
    [ k \in 1..Len(ns) |->
        [ id |-> ns[k].id, label |-> ns[k].label, children |-> ns[k].children ] ]

\* C16: load while a graph is shown.  Whenever the view is at rest, the
\* nodes GraphView holds (the ones drawn and the ones Save writes) are the
\* nodes of the layout in graphData, which is the layout of the input
\* loaded last, and the source of every edge of graphData is one of them.
C16_LoadReplacesNodes ==
    phase = "view" =>
        /\ nodeFacts(nodes) = nodeFacts(graphData[1].nodes)
        /\ \A e \in 1..Len(graphData[1].edges) : viewHas(graphData[1].edges[e].source)

---------------------------------------------------------------------------
(* C17 *)

\* C17: snap locality.  On each axis the coordinate handleNodesChange
\* commits is the candidate, or the coordinate of another node that is
\* less than SNAP_THRESHOLD from the candidate; so no move is displaced by
\* SNAP_THRESHOLD or more on an axis.
C17_SnapLocality ==
    lastChange # <<>> =>
        \A axis \in { 1, 2 } :
            /\ \/ committed(axis) = candidate(axis)
               \/ \E i \in others :
                    /\ committed(axis) = otherAt(i, axis)
                    /\ Abs(otherAt(i, axis) - candidate(axis)) < U(SNAP_THRESHOLD)
            /\ Abs(committed(axis) - candidate(axis)) < U(SNAP_THRESHOLD)

---------------------------------------------------------------------------
(* C18 *)

\* C18: edge identity.  For records with different ids, the edges of the
\* layout have different ids, also when a children list repeats an id and
\* when ids hold a '-'.
C18_EdgeIdentity ==
    (Routed /\ uniqueIds(treeNodes)) =>
        \A a, b \in 1..Len(graphData[1].edges) :
            graphData[1].edges[a].id = graphData[1].edges[b].id => a = b

===========================================================================
